---- MODULE Spec2Model ----
(***************************************************************************)
(* The ensemble ranking engine of backend/app/ranking_engine.py as a state *)
(* machine: get_ranker builds an EnsembleRanker, rank_posts scores a batch *)
(* post by post (threading seen_tickers / seen_sectors) and sorts it.      *)
(*                                                                         *)
(* Numbers are fixed point.  Scores, signals and the [0,1] fields of a     *)
(* post are in thousandths (One = 1.0), strategy weights in hundredths,    *)
(* so final_score is in units of 10^-5 (One * WeightSum = 1.0).  Time is   *)
(* in whole hours.  math.log1p and math.exp are tabulated, rounded to the  *)
(* nearest thousandth.                                                     *)
(*                                                                         *)
(* A Python dict is a record [val, nulls]: val maps the keys that carry a  *)
(* value to it, nulls is the set of keys present with the value None.      *)
(* The content string is represented by its length.                        *)
(***************************************************************************)
EXTENDS Integers, Sequences, FiniteSets, TLC

VARIABLES
    strategy_name,     \* the name get_ranker was called with ("" before the call)
    ranker,            \* the EnsembleRanker: [strategy, weights]
    now,               \* datetime.utcnow(), in hours
    pc,                \* per call: "idle", "loop", "done" or "raised"
    posts,             \* per call: the posts argument
    user_preferences,  \* per call: the user_preferences argument
    idx,               \* per call: 1-based position of the for loop in posts
    seen_tickers,      \* per session: the local set seen_tickers
    seen_sectors,      \* per session: the local set seen_sectors
    scored_posts,      \* per call: the local list scored_posts
    appended,          \* per call: the entries of scored_posts in append order (history)
    reads,             \* per call: the clock readings of its posts (history)
    ret,               \* per call: the returned list
    explained,         \* the post explain_ranking was last called with
    explanation,       \* the string explain_ranking last returned, as its pieces
    db,                \* the rows of one post: its posts row (llm_status, retry_count)
                       \* and the numbers of its insights and llm_audit_logs rows
    execs,             \* the process_post executions: [pc, retry_count, caller]
    spawned,           \* number of process_post executions created so far (history)
    failed_attempts,   \* number of analysis attempts that failed (history)
    failed_at,         \* hour at which llm_status was last set to failed (history)
    requeued_age,      \* age in hours of the failure retry_failed_posts last reset (history)
    sync_return,       \* what process_post_sync returned, and the post at that time
    ticker_connections,\* the ticker's entry of TickerConnectionManager.ticker_connections
    websockets,        \* per websocket: "new", "open" (its endpoint runs) or "closed"
    broadcast          \* the broadcast_to_ticker call: its position and locals

vars == <<strategy_name, ranker, now, pc, posts, user_preferences, idx,
          seen_tickers, seen_sectors, scored_posts, appended, reads, ret,
          explained, explanation, db, execs, spawned, failed_attempts, failed_at,
          requeued_age, sync_return, ticker_connections, websockets, broadcast>>

\* the state of the post-processing pipeline (scheduler.py, tasks.py)
schedVars == <<db, execs, spawned, failed_attempts, failed_at, requeued_age, sync_return>>
\* the state of the websocket manager (routers/posts.py)
wsVars == <<ticker_connections, websockets, broadcast>>
\* the state of the ranking engine, the clock apart
rankVars == <<strategy_name, ranker, pc, posts, user_preferences, idx, seen_tickers,
              seen_sectors, scored_posts, appended, reads, ret, explained, explanation>>

----------------------------------------------------------------------------
(* Bounds of the model *)

MaxPosts == 3        \* longest batch of the sequential specification
MaxConcPosts == 2    \* longest batch of a call of the concurrent specification
MaxTicks == 1        \* hours the clock may advance in the concurrent specification
MaxExecs == 2        \* process_post executions alive at a time
MaxSpawns == 4       \* process_post executions created in one behaviour
MaxHalfDays == 2     \* half days the clock may advance while posts are processed
MaxSockets == 3      \* websockets that connect for the ticker
MaxDivPosts == 3     \* longest batch of the extractor specification

----------------------------------------------------------------------------
(* Arithmetic *)

One == 1000

Min(a, b) == IF a < b THEN a ELSE b
Max(a, b) == IF a > b THEN a ELSE b

Range(s) == {s[i] : i \in 1..Len(s)}

RECURSIVE SumOver(_, _)
SumOver(S, f) ==
    IF S = {} THEN 0
    ELSE LET x == CHOOSE y \in S : TRUE IN f[x] + SumOver(S \ {x}, f)

\* math.log1p(n) in thousandths, for the engagement counts of the model
Log1pMilli ==
    0 :> 0 @@ 1 :> 693 @@ 2 :> 1099 @@ 10 :> 2398 @@ 20 :> 3045 @@ 100 :> 4615 @@
    147 :> 4997 @@ 148 :> 5004 @@ 22026 :> 10000 @@ 100000 :> 11513

\* round(1000 * math.exp(-m / 72)) for m = -216, -215, ..., 560
ExpTable == <<
    20086, 19808, 19535, 19266, 19000, 18738, 18480, 18225, 17973, 17725, 17481, 17240,
    17002, 16768, 16536, 16308, 16083, 15861, 15643, 15427, 15214, 15004, 14797, 14593,
    14392, 14193, 13998, 13805, 13614, 13426, 13241, 13059, 12878, 12701, 12526, 12353,
    12182, 12014, 11849, 11685, 11524, 11365, 11208, 11054, 10901, 10751, 10603, 10456,
    10312, 10170, 10030, 9891, 9755, 9620, 9488, 9357, 9228, 9101, 8975, 8851,
    8729, 8609, 8490, 8373, 8257, 8144, 8031, 7920, 7811, 7703, 7597, 7492,
    7389, 7287, 7187, 7088, 6990, 6893, 6798, 6704, 6612, 6521, 6431, 6342,
    6255, 6168, 6083, 5999, 5917, 5835, 5755, 5675, 5597, 5520, 5444, 5369,
    5294, 5221, 5149, 5078, 5008, 4939, 4871, 4804, 4738, 4672, 4608, 4544,
    4482, 4420, 4359, 4299, 4239, 4181, 4123, 4066, 4010, 3955, 3901, 3847,
    3794, 3741, 3690, 3639, 3589, 3539, 3490, 3442, 3395, 3348, 3302, 3256,
    3211, 3167, 3123, 3080, 3038, 2996, 2955, 2914, 2874, 2834, 2795, 2756,
    2718, 2681, 2644, 2607, 2571, 2536, 2501, 2466, 2432, 2399, 2366, 2333,
    2301, 2269, 2238, 2207, 2177, 2147, 2117, 2088, 2059, 2031, 2003, 1975,
    1948, 1921, 1894, 1868, 1842, 1817, 1792, 1767, 1743, 1719, 1695, 1672,
    1649, 1626, 1604, 1581, 1560, 1538, 1517, 1496, 1475, 1455, 1435, 1415,
    1396, 1376, 1357, 1339, 1320, 1302, 1284, 1266, 1249, 1232, 1215, 1198,
    1181, 1165, 1149, 1133, 1118, 1102, 1087, 1072, 1057, 1043, 1028, 1014,
    1000, 986, 973, 959, 946, 933, 920, 907, 895, 882, 870, 858,
    846, 835, 823, 812, 801, 790, 779, 768, 757, 747, 737, 727,
    717, 707, 697, 687, 678, 668, 659, 650, 641, 632, 624, 615,
    607, 598, 590, 582, 574, 566, 558, 550, 543, 535, 528, 521,
    513, 506, 499, 492, 486, 479, 472, 466, 459, 453, 447, 441,
    435, 429, 423, 417, 411, 405, 400, 394, 389, 384, 378, 373,
    368, 363, 358, 353, 348, 343, 338, 334, 329, 325, 320, 316,
    311, 307, 303, 299, 295, 291, 287, 283, 279, 275, 271, 267,
    264, 260, 256, 253, 249, 246, 243, 239, 236, 233, 229, 226,
    223, 220, 217, 214, 211, 208, 205, 202, 200, 197, 194, 192,
    189, 186, 184, 181, 179, 176, 174, 171, 169, 167, 164, 162,
    160, 158, 155, 153, 151, 149, 147, 145, 143, 141, 139, 137,
    135, 133, 132, 130, 128, 126, 125, 123, 121, 119, 118, 116,
    115, 113, 111, 110, 108, 107, 105, 104, 103, 101, 100, 98,
    97, 96, 94, 93, 92, 90, 89, 88, 87, 86, 84, 83,
    82, 81, 80, 79, 78, 77, 76, 74, 73, 72, 71, 70,
    69, 69, 68, 67, 66, 65, 64, 63, 62, 61, 60, 60,
    59, 58, 57, 56, 56, 55, 54, 53, 53, 52, 51, 50,
    50, 49, 48, 48, 47, 46, 46, 45, 45, 44, 43, 43,
    42, 42, 41, 40, 40, 39, 39, 38, 38, 37, 37, 36,
    36, 35, 35, 34, 34, 33, 33, 32, 32, 31, 31, 31,
    30, 30, 29, 29, 29, 28, 28, 27, 27, 27, 26, 26,
    26, 25, 25, 25, 24, 24, 24, 23, 23, 23, 22, 22,
    22, 21, 21, 21, 20, 20, 20, 20, 19, 19, 19, 19,
    18, 18, 18, 18, 17, 17, 17, 17, 16, 16, 16, 16,
    16, 15, 15, 15, 15, 14, 14, 14, 14, 14, 13, 13,
    13, 13, 13, 13, 12, 12, 12, 12, 12, 12, 11, 11,
    11, 11, 11, 11, 11, 10, 10, 10, 10, 10, 10, 10,
    9, 9, 9, 9, 9, 9, 9, 9, 8, 8, 8, 8,
    8, 8, 8, 8, 8, 7, 7, 7, 7, 7, 7, 7,
    7, 7, 7, 6, 6, 6, 6, 6, 6, 6, 6, 6,
    6, 6, 6, 5, 5, 5, 5, 5, 5, 5, 5, 5,
    5, 5, 5, 5, 5, 5, 4, 4, 4, 4, 4, 4,
    4, 4, 4, 4, 4, 4, 4, 4, 4, 4, 4, 4,
    3, 3, 3, 3, 3, 3, 3, 3, 3, 3, 3, 3,
    3, 3, 3, 3, 3, 3, 3, 3, 3, 3, 3, 3,
    2, 2, 2, 2, 2, 2, 2, 2, 2, 2, 2, 2,
    2, 2, 2, 2, 2, 2, 2, 2, 2, 2, 2, 2,
    2, 2, 2, 2, 2, 2, 2, 2, 2, 2, 2, 2,
    2, 1, 1, 1, 1, 1, 1, 1, 1, 1, 1, 1,
    1, 1, 1, 1, 1, 1, 1, 1, 1, 1, 1, 1,
    1, 1, 1, 1, 1, 1, 1, 1, 1, 1, 1, 1,
    1, 1, 1, 1, 1, 1, 1, 1, 1, 1, 1, 1,
    1, 1, 1, 1, 1, 1, 1, 1, 1, 1, 1, 1,
    1, 1, 1, 1, 1, 1, 1, 1, 1, 1, 1, 1,
    1, 1, 1, 1, 1, 1, 1, 1, 0, 0, 0, 0,
    0, 0, 0, 0, 0, 0, 0, 0, 0
>>

\* math.exp(-age_hours / half_life) in thousandths; half_life divides 72
ExpNegMilli(age_hours, half_life) ==
    LET m == age_hours * (72 \div half_life)
    IN  IF m > 560 THEN 0 ELSE ExpTable[m + 217]

----------------------------------------------------------------------------
(* Python dicts *)

Dict(val, nulls) == [val |-> val, nulls |-> nulls]
EmptyVal == [k \in {} |-> 0]
EmptyDict == Dict(EmptyVal, {})

Keys(d) == DOMAIN d.val \cup d.nulls
IsNull(d, k) == k \in d.nulls
\* d.get(k, default), for a key that is not null
Get(d, k, default) == IF k \in DOMAIN d.val THEN d.val[k] ELSE default
\* {**a, **b}
Merge(a, b) ==
    Dict([k \in (DOMAIN a.val \ Keys(b)) \cup DOMAIN b.val |->
              IF k \in DOMAIN b.val THEN b.val[k] ELSE a.val[k]],
         (a.nulls \ Keys(b)) \cup b.nulls)

----------------------------------------------------------------------------
(* RankingStrategy and STRATEGY_WEIGHTS *)

RankingStrategy ==
    [BALANCED |-> "balanced", QUALITY_FOCUSED |-> "quality_focused",
     TIMELY |-> "timely", DIVERSE |-> "diverse", PERSONALIZED |-> "personalized"]

SignalNames == {"quality", "community", "author", "market", "recency", "diversity"}

STRATEGY_WEIGHTS ==
    [BALANCED |->
        [quality |-> 25, community |-> 20, author |-> 20,
         market |-> 15, recency |-> 15, diversity |-> 5],
     QUALITY_FOCUSED |->
        [quality |-> 40, community |-> 10, author |-> 30,
         market |-> 10, recency |-> 5, diversity |-> 5],
     TIMELY |->
        [quality |-> 15, community |-> 15, author |-> 10,
         market |-> 30, recency |-> 25, diversity |-> 5],
     DIVERSE |->
        [quality |-> 20, community |-> 15, author |-> 15,
         market |-> 10, recency |-> 15, diversity |-> 25]]

\* RankingStrategy(value): the member with that value, or "ValueError"
RankingStrategyOf(value) ==
    IF \E m \in DOMAIN RankingStrategy : RankingStrategy[m] = value
    THEN CHOOSE m \in DOMAIN RankingStrategy : RankingStrategy[m] = value
    ELSE "ValueError"

\* EnsembleRanker.__init__ without the fallback to the balanced row
EnsembleRankerNoDefault(strategy) ==
    [strategy |-> strategy,
     weights  |-> IF strategy \in DOMAIN STRATEGY_WEIGHTS
                  THEN STRATEGY_WEIGHTS[strategy]
                  ELSE [n \in {} |-> 0]]

\* EnsembleRanker.__init__
EnsembleRanker(strategy) ==
    [strategy |-> strategy,
     weights  |-> IF strategy \in DOMAIN STRATEGY_WEIGHTS
                  THEN STRATEGY_WEIGHTS[strategy]
                  ELSE STRATEGY_WEIGHTS.BALANCED]

\* get_ranker with another strategy in its except branch
get_ranker_other_fallback(strategy) ==
    LET strategy_enum == RankingStrategyOf(strategy)
    IN  EnsembleRanker(IF strategy_enum = "ValueError" THEN "QUALITY_FOCUSED"
                       ELSE strategy_enum)

get_ranker(strategy) ==
    LET strategy_enum == RankingStrategyOf(strategy)
    IN  EnsembleRanker(IF strategy_enum = "ValueError" THEN "BALANCED" ELSE strategy_enum)

NoRanker == [strategy |-> "", weights |-> [n \in SignalNames |-> 0]]

----------------------------------------------------------------------------
(* Timestamps.  A created_at value is [form, wall, suffix]: form "iso" is   *)
(* an ISO-8601 string with wall-clock hour `wall` and UTC-offset suffix     *)
(* `suffix` ("" for none); "empty" is the empty string, "malformed" a       *)
(* string that is no ISO timestamp, "int" a number, "datetime" a datetime   *)
(* object.                                                                  *)

Timestamp(wall, suffix) == [form |-> "iso", wall |-> wall, suffix |-> suffix]
EmptyString == [form |-> "empty", wall |-> 0, suffix |-> ""]
MalformedString == [form |-> "malformed", wall |-> 0, suffix |-> ""]
NotAString == [form |-> "int", wall |-> 0, suffix |-> ""]
DatetimeObject(wall) == [form |-> "datetime", wall |-> wall, suffix |-> ""]

\* the UTC offsets datetime.fromisoformat reads, in hours
OffsetHours == [x \in {"+00:00", "+05:00", "-05:00"} |->
                   IF x = "+05:00" THEN 5 ELSE IF x = "-05:00" THEN -5 ELSE 0]

\* created_at_str.replace("Z", "+00:00"); a value without .replace is an
\* AttributeError, and datetime.replace takes no strings: a TypeError
ReplaceZ(s) ==
    IF s.form = "int" THEN [error |-> "AttributeError", s |-> s]
    ELSE IF s.form = "datetime" THEN [error |-> "TypeError", s |-> s]
    ELSE [error |-> "", s |-> IF s.suffix = "Z" THEN [s EXCEPT !.suffix = "+00:00"] ELSE s]

\* datetime.fromisoformat: a datetime [wall, aware, offset] or a ValueError
FromIsoFormat(s) ==
    IF s.form = "iso" /\ s.suffix = ""
    THEN [error |-> "", wall |-> s.wall, aware |-> FALSE, offset |-> 0]
    ELSE IF s.form = "iso" /\ s.suffix \in DOMAIN OffsetHours
    THEN [error |-> "", wall |-> s.wall, aware |-> TRUE, offset |-> OffsetHours[s.suffix]]
    ELSE [error |-> "ValueError", wall |-> 0, aware |-> FALSE, offset |-> 0]

\* datetime.utcnow().replace(tzinfo=created_at.tzinfo): the wall clock of UTC now,
\* relabelled with the offset of created_at
UtcNowAs(clock, created_at) ==
    [error |-> "", wall |-> clock, aware |-> created_at.aware, offset |-> created_at.offset]

\* a - b in hours, for two datetimes that are both naive or both aware
HoursBetween(a, b) == (a.wall - a.offset) - (b.wall - b.offset)

----------------------------------------------------------------------------
(* Signal extractors.  Each yields a score in thousandths; XRaises(post)   *)
(* tells when the extractor raises (an operation on None is a TypeError).  *)

\* bool(post.get(k)) for a list-valued and for a string-valued key
TruthyList(post, k) == k \in DOMAIN post.val /\ Len(post.val[k]) > 0
TruthyStr(post, k) == k \in DOMAIN post.val /\ post.val[k] /= ""

compute_quality_raises(post) ==
    \/ IsNull(post, "confidence_level")
    \/ IsNull(post, "content")
    \/ IsNull(post, "quality_score")

\* the quality signal with its three bonus tests made inclusive
compute_quality_signal_inclusive(post) ==
    LET base_score == Get(post, "quality_score", 500)
        confidence == Get(post, "confidence_level", 500)
        confidence_bonus == IF confidence >= 800 THEN 100 ELSE 0
        content_length == Get(post, "content", 0)
        length_bonus == IF 200 <= content_length /\ content_length <= 2000 THEN 50 ELSE 0
        detail_bonus == IF TruthyList(post, "key_points") \/ TruthyList(post, "potential_catalysts")
                        THEN 50 ELSE 0
    IN  Min(One, base_score + confidence_bonus + length_bonus + detail_bonus)

compute_quality_signal(post) ==
    LET base_score == Get(post, "quality_score", 500)
        confidence == Get(post, "confidence_level", 500)
        confidence_bonus == IF confidence > 800 THEN 100 ELSE 0
        content_length == Get(post, "content", 0)
        length_bonus == IF 200 < content_length /\ content_length < 2000 THEN 50 ELSE 0
        detail_bonus == IF TruthyList(post, "key_points") /\ TruthyList(post, "potential_catalysts")
                        THEN 50 ELSE 0
    IN  Min(One, base_score + confidence_bonus + length_bonus + detail_bonus)

compute_community_raises(post) ==
    \/ IsNull(post, "like_count")
    \/ IsNull(post, "comment_count")
    \/ IsNull(post, "view_count")

compute_community_signal(post) ==
    LET like_count == Get(post, "like_count", 0)
        comment_count == Get(post, "comment_count", 0)
        view_count == Get(post, "view_count", 0)
        like_score == Min(One, Log1pMilli[like_count] \div 5)
        comment_score == Min(One, Log1pMilli[comment_count] \div 3)
        view_score == Min(One, Log1pMilli[view_count] \div 10)
    IN  (like_score * 500 + comment_score * 300 + view_score * 200) \div One

compute_author_raises(post) ==
    \/ IsNull(post, "sector_expertise_score")
    \/ IsNull(post, "author_reputation")
    \/ IsNull(post, "historical_accuracy")

\* the author signal with the expertise test made inclusive
compute_author_signal_inclusive(post) ==
    LET reputation == Get(post, "author_reputation", 500)
        historical_accuracy == Get(post, "historical_accuracy", 500)
        sector_expertise == Get(post, "sector_expertise_score", 0)
        expertise_bonus == IF sector_expertise >= 700 THEN 100 ELSE 0
        base == (reputation * 500 + historical_accuracy * 500) \div One
    IN  Min(One, base + expertise_bonus)

compute_author_signal(post) ==
    LET reputation == Get(post, "author_reputation", 500)
        historical_accuracy == Get(post, "historical_accuracy", 500)
        sector_expertise == Get(post, "sector_expertise_score", 0)
        expertise_bonus == IF sector_expertise > 700 THEN 100 ELSE 0
        base == (reputation * 500 + historical_accuracy * 500) \div One
    IN  Min(One, base + expertise_bonus)

compute_market_raises(post) ==
    \/ IsNull(post, "market_alignment_score")
    \/ IsNull(post, "relevance_score")

compute_market_signal(post) ==
    LET alignment_score == Get(post, "market_alignment_score", 500)
        relevance_score == Get(post, "relevance_score", 500)
        is_trending == ~IsNull(post, "is_trending_ticker")
                       /\ Get(post, "is_trending_ticker", FALSE)
        trending_bonus == IF is_trending THEN 150 ELSE 0
        base == (alignment_score * 500 + relevance_score * 500) \div One
    IN  Min(One, base + trending_bonus)

\* the half-lives of the two special strategies exchanged
HalfLifeExchanged(strategy) ==
    IF strategy = "TIMELY" THEN 72
    ELSE IF strategy = "QUALITY_FOCUSED" THEN 12
    ELSE 24

HalfLife(strategy) ==
    IF strategy = "TIMELY" THEN 12
    ELSE IF strategy = "QUALITY_FOCUSED" THEN 72
    ELSE 24

\* not created_at_str
NoCreatedAt(post) ==
    \/ IsNull(post, "created_at")
    \/ "created_at" \notin DOMAIN post.val
    \/ post.val["created_at"].form = "empty"

\* the try block lets through what is neither a ValueError nor an AttributeError
compute_recency_raises(post) ==
    /\ ~NoCreatedAt(post)
    /\ ReplaceZ(post.val["created_at"]).error = "TypeError"

\* age_hours of a parsed created_at, the clock reading `clock`
AgeHours(created_at, clock) == HoursBetween(UtcNowAs(clock, created_at), created_at)

compute_recency_signal(self, post, clock) ==
    IF NoCreatedAt(post)
    THEN 500
    ELSE LET replaced == ReplaceZ(post.val["created_at"])
             created_at == FromIsoFormat(replaced.s)
         IN  IF replaced.error = "AttributeError" \/ created_at.error = "ValueError"
             THEN 500
             ELSE LET age_hours == AgeHours(created_at, clock)
                      decay_score == ExpNegMilli(age_hours, HalfLife(self.strategy))
                  IN  Max(100, decay_score)

compute_diversity_raises(post) == IsNull(post, "tickers")

\* the diversity signal with the whole overlap ratio subtracted
compute_diversity_signal_full_penalty(post, seenT, seenS) ==
    LET post_tickers == Range(Get(post, "tickers", <<>>))
        after_tickers ==
            IF post_tickers /= {} /\ seenT /= {}
            THEN One - (Cardinality(post_tickers \cap seenT) * One) \div Cardinality(post_tickers)
            ELSE One
        after_sector ==
            IF TruthyStr(post, "sector") /\ post.val["sector"] \in seenS
            THEN (after_tickers * 700) \div One
            ELSE after_tickers
    IN  Max(300, after_sector)

\* the diversity signal with the sector penalty at 0.5
compute_diversity_signal_sector_half(post, seenT, seenS) ==
    LET post_tickers == Range(Get(post, "tickers", <<>>))
        after_tickers ==
            IF post_tickers /= {} /\ seenT /= {}
            THEN One - (Cardinality(post_tickers \cap seenT) * 500) \div Cardinality(post_tickers)
            ELSE One
        after_sector ==
            IF TruthyStr(post, "sector") /\ post.val["sector"] \in seenS
            THEN (after_tickers * 500) \div One
            ELSE after_tickers
    IN  Max(300, after_sector)

\* the diversity signal with the ticker penalty taken from the post's own tickers
compute_diversity_signal_own_tickers(post, seenT, seenS) ==
    LET post_tickers == Range(Get(post, "tickers", <<>>))
        after_tickers ==
            IF post_tickers /= {}
            THEN One - (Cardinality(post_tickers \cap (seenT \cup post_tickers)) * 500)
                           \div Cardinality(post_tickers)
            ELSE One
        after_sector ==
            IF TruthyStr(post, "sector") /\ post.val["sector"] \in seenS
            THEN (after_tickers * 700) \div One
            ELSE after_tickers
    IN  Max(300, after_sector)

compute_diversity_signal(post, seenT, seenS) ==
    LET post_tickers == Range(Get(post, "tickers", <<>>))
        after_tickers ==
            IF post_tickers /= {} /\ seenT /= {}
            THEN One - (Cardinality(post_tickers \cap seenT) * 500) \div Cardinality(post_tickers)
            ELSE One
        after_sector ==
            IF TruthyStr(post, "sector") /\ post.val["sector"] \in seenS
            THEN (after_tickers * 700) \div One
            ELSE after_tickers
    IN  Max(300, after_sector)

compute_signals_raises(post) ==
    \/ compute_quality_raises(post)
    \/ compute_community_raises(post)
    \/ compute_author_raises(post)
    \/ compute_market_raises(post)
    \/ compute_recency_raises(post)
    \/ compute_diversity_raises(post)

\* compute_signals with the market signal raised for a favorite ticker
compute_signals_personalized(self, post, seenT, seenS, prefs, clock) ==
    [quality   |-> compute_quality_signal(post),
     community |-> compute_community_signal(post),
     author    |-> compute_author_signal(post),
     market    |-> IF Range(prefs.favorite_tickers) \cap Range(Get(post, "tickers", <<>>)) /= {}
                   THEN One ELSE compute_market_signal(post),
     recency   |-> compute_recency_signal(self, post, clock),
     diversity |-> compute_diversity_signal(post, seenT, seenS)]

compute_signals(self, post, seenT, seenS, prefs, clock) ==
    [quality   |-> compute_quality_signal(post),
     community |-> compute_community_signal(post),
     author    |-> compute_author_signal(post),
     market    |-> compute_market_signal(post),
     recency   |-> compute_recency_signal(self, post, clock),
     diversity |-> compute_diversity_signal(post, seenT, seenS)]

\* the weighted sum taken with the balanced weights, whatever the ranker
aggregate_signals_balanced(self, signals) ==
    SumOver(DOMAIN signals,
            [n \in DOMAIN signals |->
                signals[n] * (IF n \in DOMAIN STRATEGY_WEIGHTS.BALANCED
                              THEN STRATEGY_WEIGHTS.BALANCED[n] ELSE 0)])

aggregate_signals(self, signals) ==
    SumOver(DOMAIN signals,
            [n \in DOMAIN signals |->
                signals[n] * (IF n \in DOMAIN self.weights THEN self.weights[n] ELSE 0)])

----------------------------------------------------------------------------
(* list.sort(key=lambda x: x["final_score"], reverse=True): a stable sort,  *)
(* descending; entries with equal keys keep their order.                    *)

\* InsertDesc with ties put first: what sorting ascending and reversing would do
InsertDescBeforeEqual(sorted, x) ==
    LET before == {i \in 1..Len(sorted) :
                      sorted[i].val["final_score"] > x.val["final_score"]}
        k == Cardinality(before)
    IN  SubSeq(sorted, 1, k) \o <<x>> \o SubSeq(sorted, k + 1, Len(sorted))

InsertDesc(sorted, x) ==
    LET before == {i \in 1..Len(sorted) :
                      sorted[i].val["final_score"] >= x.val["final_score"]}
        k == Cardinality(before)
    IN  SubSeq(sorted, 1, k) \o <<x>> \o SubSeq(sorted, k + 1, Len(sorted))

RECURSIVE SortDesc(_)
SortDesc(s) ==
    IF s = <<>> THEN <<>>
    ELSE InsertDesc(SortDesc(SubSeq(s, 1, Len(s) - 1)), s[Len(s)])

----------------------------------------------------------------------------
(* explain_ranking.  The returned string is the sequence of its pieces; a   *)
(* piece is [text, args]: a literal with the values formatted into it.      *)

\* the keys of the signals dict, in the order _compute_signals inserts them
SignalOrder == <<"quality", "community", "author", "market", "recency", "diversity">>

Piece(text, args) == [text |-> text, args |-> args]

\* f"{x:.2f}": x to two decimals, as a number of hundredths
Format2f(x) == (x + 5) \div 10

InsertByValueDesc(sorted, x) ==
    LET k == Cardinality({i \in 1..Len(sorted) : sorted[i].weighted_value >= x.weighted_value})
    IN  SubSeq(sorted, 1, k) \o <<x>> \o SubSeq(sorted, k + 1, Len(sorted))

\* sorted(pairs, key=lambda x: x[1], reverse=True): stable, descending
RECURSIVE SortedByValueDesc(_)
SortedByValueDesc(s) ==
    IF s = <<>> THEN <<>>
    ELSE InsertByValueDesc(SortedByValueDesc(SubSeq(s, 1, Len(s) - 1)), s[Len(s)])

\* the sorted pairs without the [:3] slice
top_signals_unsliced(self, signals) ==
    LET names == SelectSeq(SignalOrder, LAMBDA n : n \in DOMAIN signals)
    IN  SortedByValueDesc(
            [i \in 1..Len(names) |->
                [signal_name |-> names[i],
                 weighted_value |-> signals[names[i]] *
                     (IF names[i] \in DOMAIN self.weights THEN self.weights[names[i]] ELSE 0)]])

\* top_signals = sorted([(name, value * self.weights.get(name, 0)) ...])[:3]
top_signals(self, signals) ==
    LET names == SelectSeq(SignalOrder, LAMBDA n : n \in DOMAIN signals)
        pairs == SortedByValueDesc(
            [i \in 1..Len(names) |->
                [signal_name |-> names[i],
                 weighted_value |-> signals[names[i]] *
                     (IF names[i] \in DOMAIN self.weights THEN self.weights[names[i]] ELSE 0)]])
    IN  SubSeq(pairs, 1, Min(3, Len(pairs)))

\* the if/elif chain with its thresholds inclusive
PhraseForInclusive(post, pair) ==
    IF pair.signal_name = "quality" /\ pair.weighted_value >= 15000
    THEN <<Piece("high-quality analysis (score: {quality:.2f})",
                 <<Format2f(Get(post, "quality_score", 0))>>)>>
    ELSE IF pair.signal_name = "author" /\ pair.weighted_value >= 15000
    THEN <<Piece("experienced author (reputation: {rep:.2f}, accuracy: {acc:.2f})",
                 <<Format2f(Get(post, "author_reputation", 0)),
                   Format2f(Get(post, "historical_accuracy", 0))>>)>>
    ELSE IF pair.signal_name = "market" /\ pair.weighted_value >= 10000
    THEN <<Piece("strong market alignment and relevance", <<>>)>>
    ELSE IF pair.signal_name = "recency" /\ pair.weighted_value >= 10000
    THEN <<Piece("timely and recent insight", <<>>)>>
    ELSE IF pair.signal_name = "community" /\ pair.weighted_value >= 10000
    THEN <<Piece("high community engagement ({likes} likes)",
                 <<Get(post, "like_count", 0)>>)>>
    ELSE <<>>

\* the phrase the if/elif chain appends for one pair, <<>> when it appends none
PhraseFor(post, pair) ==
    IF pair.signal_name = "quality" /\ pair.weighted_value > 15000
    THEN <<Piece("high-quality analysis (score: {quality:.2f})",
                 <<Format2f(Get(post, "quality_score", 0))>>)>>
    ELSE IF pair.signal_name = "author" /\ pair.weighted_value > 15000
    THEN <<Piece("experienced author (reputation: {rep:.2f}, accuracy: {acc:.2f})",
                 <<Format2f(Get(post, "author_reputation", 0)),
                   Format2f(Get(post, "historical_accuracy", 0))>>)>>
    ELSE IF pair.signal_name = "market" /\ pair.weighted_value > 10000
    THEN <<Piece("strong market alignment and relevance", <<>>)>>
    ELSE IF pair.signal_name = "recency" /\ pair.weighted_value > 10000
    THEN <<Piece("timely and recent insight", <<>>)>>
    ELSE IF pair.signal_name = "community" /\ pair.weighted_value > 10000
    THEN <<Piece("high community engagement ({likes} likes)",
                 <<Get(post, "like_count", 0)>>)>>
    ELSE <<>>

RECURSIVE PhrasesFrom(_, _, _)
PhrasesFrom(post, pairs, i) ==
    IF i > Len(pairs) THEN <<>>
    ELSE PhraseFor(post, pairs[i]) \o PhrasesFrom(post, pairs, i + 1)

\* ", ".join(parts)
RECURSIVE JoinComma(_)
JoinComma(parts) ==
    IF Len(parts) <= 1 THEN parts
    ELSE <<parts[1], Piece(", ", <<>>)>> \o JoinComma(Tail(parts))

explain_ranking(self, post) ==
    LET signals == Get(post, "signals", <<>>)
        found == PhrasesFrom(post, top_signals(self, signals), 1)
        explanations == IF found = <<>>
                        THEN <<Piece("balanced across multiple factors", <<>>)>>
                        ELSE found
        n == Len(explanations)
        base == <<Piece("This post is recommended because it has ", <<>>)>>
        body == IF n = 1 THEN <<explanations[1]>>
                ELSE IF n = 2
                THEN <<explanations[1], Piece(" and ", <<>>), explanations[2]>>
                ELSE JoinComma(SubSeq(explanations, 1, n - 1))
                         \o <<Piece(", and ", <<>>), explanations[n]>>
    IN  base \o body \o <<Piece(".", <<>>)>>

----------------------------------------------------------------------------
(* rank_posts, one step per iteration of its loop *)

Calls == {"A", "B"}

\* one session for all calls: the sets kept on the ranker instead of in the call
SharedSession(c) == "A"

\* the RankingSession of a call: the sets rank_posts creates as its own locals
SessionOf(c) == c

\* seen_tickers assigned instead of updated
SeenTickersReplaced(seenT, post) ==
    IF TruthyList(post, "tickers") THEN Range(post.val["tickers"]) ELSE seenT

\* if post.get("tickers"): seen_tickers.update(post["tickers"])
SeenTickersAfter(seenT, post) ==
    IF TruthyList(post, "tickers") THEN seenT \cup Range(post.val["tickers"]) ELSE seenT

\* if post.get("sector"): seen_sectors.add(post["sector"])
SeenSectorsAfter(seenS, post) ==
    IF TruthyStr(post, "sector") THEN seenS \cup {post.val["sector"]} ELSE seenS

\* the entry with the post's own keys winning: {"final_score": ..., "signals": ..., **post}
ScoredPostInputWins(post, final_score, signals) ==
    Merge(Dict([final_score |-> final_score, signals |-> signals], {}), post)

\* the input dict written in place: post["final_score"] = ...; post["signals"] = ...
InputPostAnnotated(post, entry) == entry

\* the dict in the input list after its entry is built: {**post, ...} is a new
\* dict, and rank_posts assigns to no key of post
InputPostAfter(post, entry) == post

\* the entry rank_posts appends: {**post, "final_score": ..., "signals": ...}
ScoredPost(post, final_score, signals) ==
    Merge(post, Dict([final_score |-> final_score, signals |-> signals], {}))

GetRanker(name) ==
    /\ UNCHANGED <<schedVars, wsVars>>
    /\ ranker = NoRanker
    /\ strategy_name' = name
    /\ ranker' = get_ranker(name)
    /\ UNCHANGED <<now, pc, posts, user_preferences, idx, seen_tickers, seen_sectors,
                   scored_posts, appended, reads, ret, explained, explanation>>

\* a call rank_posts(batch, prefs) with its arguments drawn from the given sets
RankStart(c, batches, preferences) ==
    /\ UNCHANGED <<schedVars, wsVars>>
    /\ ranker /= NoRanker
    /\ pc[c] = "idle"
    /\ \E batch \in batches, prefs \in preferences :
        /\ posts' = [posts EXCEPT ![c] = batch]
        /\ user_preferences' = [user_preferences EXCEPT ![c] = prefs]
        /\ IF batch = <<>>
           THEN /\ pc' = [pc EXCEPT ![c] = "done"]
                /\ ret' = [ret EXCEPT ![c] = <<>>]
                /\ UNCHANGED <<idx, seen_tickers, seen_sectors, scored_posts>>
           ELSE /\ pc' = [pc EXCEPT ![c] = "loop"]
                /\ scored_posts' = [scored_posts EXCEPT ![c] = <<>>]
                /\ seen_tickers' = [seen_tickers EXCEPT ![SessionOf(c)] = {}]
                /\ seen_sectors' = [seen_sectors EXCEPT ![SessionOf(c)] = {}]
                /\ idx' = [idx EXCEPT ![c] = 1]
                /\ ret' = ret
    /\ UNCHANGED <<strategy_name, ranker, now, appended, reads, explained, explanation>>

ScoreNext(c) ==
    /\ UNCHANGED <<schedVars, wsVars>>
    /\ pc[c] = "loop"
    /\ idx[c] <= Len(posts[c])
    /\ LET post == posts[c][idx[c]]
           s == SessionOf(c)
       IN  IF compute_signals_raises(post)
           THEN /\ pc' = [pc EXCEPT ![c] = "raised"]
                /\ UNCHANGED <<idx, seen_tickers, seen_sectors, scored_posts,
                               appended, reads, posts>>
           ELSE LET signals == compute_signals(ranker, post, seen_tickers[s],
                                               seen_sectors[s], user_preferences[c], now)
                    final_score == aggregate_signals(ranker, signals)
                    entry == ScoredPost(post, final_score, signals)
                IN  /\ seen_tickers' = [seen_tickers EXCEPT ![s] = SeenTickersAfter(@, post)]
                    /\ seen_sectors' = [seen_sectors EXCEPT ![s] = SeenSectorsAfter(@, post)]
                    /\ scored_posts' = [scored_posts EXCEPT ![c] = Append(@, entry)]
                    /\ appended' = [appended EXCEPT ![c] = Append(@, entry)]
                    /\ reads' = [reads EXCEPT ![c] = Append(@, now)]
                    /\ posts' = [posts EXCEPT ![c][idx[c]] = InputPostAfter(post, entry)]
                    /\ idx' = [idx EXCEPT ![c] = @ + 1]
                    /\ pc' = pc
    /\ UNCHANGED <<strategy_name, ranker, now, user_preferences, ret,
                   explained, explanation>>

SortReturn(c) ==
    /\ UNCHANGED <<schedVars, wsVars>>
    /\ pc[c] = "loop"
    /\ idx[c] > Len(posts[c])
    /\ scored_posts' = [scored_posts EXCEPT ![c] = SortDesc(@)]
    /\ ret' = [ret EXCEPT ![c] = SortDesc(scored_posts[c])]
    /\ pc' = [pc EXCEPT ![c] = "done"]
    /\ UNCHANGED <<strategy_name, ranker, now, posts, user_preferences, idx,
                   seen_tickers, seen_sectors, appended, reads, explained, explanation>>

\* the caller explains one entry of the list rank_posts returned
Explain(c) ==
    /\ UNCHANGED <<schedVars, wsVars>>
    /\ pc[c] = "done"
    /\ \E k \in 1..Len(ret[c]) :
        /\ explained' = ret[c][k]
        /\ explanation' = explain_ranking(ranker, ret[c][k])
    /\ UNCHANGED <<strategy_name, ranker, now, pc, posts, user_preferences, idx,
                   seen_tickers, seen_sectors, scored_posts, appended, reads, ret>>

\* the wall clock advances between two steps
Tick ==
    /\ UNCHANGED <<schedVars, wsVars>>
    /\ now < MaxTicks
    /\ now' = now + 1
    /\ UNCHANGED <<strategy_name, ranker, pc, posts, user_preferences, idx,
                   seen_tickers, seen_sectors, scored_posts, appended, reads, ret,
                   explained, explanation>>

\* rank_posts run alone on a batch none of whose posts raises, reading the clock
\* clocks[k] for its k-th post: the entries appended from position k on ...
RECURSIVE ScoreFrom(_, _, _, _, _, _, _)
ScoreFrom(self, batch, prefs, clocks, k, seenT, seenS) ==
    IF k > Len(batch) THEN <<>>
    ELSE LET post == batch[k]
             signals == compute_signals(self, post, seenT, seenS, prefs, clocks[k])
             final_score == aggregate_signals(self, signals)
         IN  <<ScoredPost(post, final_score, signals)>> \o
             ScoreFrom(self, batch, prefs, clocks, k + 1,
                       SeenTickersAfter(seenT, post), SeenSectorsAfter(seenS, post))

\* ... and the list it returns
rank_posts(self, batch, prefs, clocks) ==
    IF batch = <<>> THEN <<>>
    ELSE SortDesc(ScoreFrom(self, batch, prefs, clocks, 1, {}, {}))


----------------------------------------------------------------------------
(* Post processing: process_post, its delayed retries, the cron jobs        *)
(* retry_failed_posts and process_pending_posts, and process_post_sync.     *)
(* One post is followed.  The event loop runs one coroutine at a time, so   *)
(* an action is the code between two suspension points (await of the LLM    *)
(* call, of the embedding calls, of asyncio.sleep).                         *)

MAX_RETRIES == 3

Execs == 1..MaxExecs

\* the post as create_post leaves it: pending, never retried, no derived rows
NewPost == [llm_status |-> "pending", retry_count |-> 0, insights |-> 0, llm_audit_logs |-> 0]

NoExecution == [pc |-> "none", retry_count |-> 0, caller |-> ""]
NotReturned == [returned |-> FALSE, value |-> FALSE, llm_status |-> "", attempt |-> ""]

\* the outer except block: "Catastrophic error", a best-effort update to failed
catastrophic_error(row, best_effort_ok) ==
    IF best_effort_ok THEN [row EXCEPT !.llm_status = "failed"] ELSE row

\* the inner except block, for an execution that read retry_count at its start:
\* the row it leaves, whether it wrote failed, and whether it schedules a retry.
\* Its own update raising lands in the outer except block.
analysis_failed(row, retry_count, update_ok, best_effort_ok) ==
    LET new_retry_count == retry_count + 1
    IN  IF ~update_ok
        THEN [row |-> catastrophic_error(row, best_effort_ok),
              wrote_failed |-> best_effort_ok, retry |-> FALSE]
        ELSE IF new_retry_count >= MAX_RETRIES
        THEN [row |-> [row EXCEPT !.llm_status = "failed", !.retry_count = new_retry_count],
              wrote_failed |-> TRUE, retry |-> FALSE]
        ELSE [row |-> [row EXCEPT !.llm_status = "pending", !.retry_count = new_retry_count],
              wrote_failed |-> FALSE, retry |-> TRUE]

\* process_post_sync returns True when the awaited process_post returns
ReturnOfSync(e, row, attempt) ==
    IF execs[e].caller = "process_post_sync"
    THEN [returned |-> TRUE, value |-> TRUE, llm_status |-> row.llm_status,
          attempt |-> attempt]
    ELSE sync_return

\* a free place for a new execution
FreeExecs == {e \in Execs : execs[e].pc = "none"}
CanSpawn == FreeExecs /= {} /\ spawned < MaxSpawns
NewExec == CHOOSE e \in FreeExecs : \A f \in FreeExecs : e <= f

\* asyncio.create_task(process_post(post_id)), by the named caller
Spawn(caller) ==
    /\ execs' = [execs EXCEPT ![NewExec] = [pc |-> "queued", retry_count |-> 0,
                                            caller |-> caller]]
    /\ spawned' = spawned + 1

\* process_post returns: the row it leaves, what became of the attempt, and
\* whether asyncio.create_task(delayed_retry()) was called on the way
Return(e, row, attempt, wrote_failed, retry) ==
    /\ db' = row
    /\ failed_at' = IF wrote_failed THEN now ELSE failed_at
    /\ failed_attempts' = IF attempt = "failed" THEN failed_attempts + 1 ELSE failed_attempts
    /\ sync_return' = ReturnOfSync(e, row, attempt)
    /\ IF retry /\ spawned < MaxSpawns
       THEN /\ execs' = [execs EXCEPT ![e] = [pc |-> "sleeping", retry_count |-> 0,
                                              caller |-> "delayed_retry"]]
            /\ spawned' = spawned + 1
       ELSE /\ execs' = [execs EXCEPT ![e] = NoExecution]
            /\ spawned' = spawned
    /\ UNCHANGED <<requeued_age, now, rankVars, wsVars>>

\* process_post from its start (or the end of asyncio.sleep(delay)) to the LLM call
StartProcessPost(e) ==
    /\ execs[e].pc \in {"queued", "sleeping"}
    /\ \E fetch_ok, best_effort_ok \in BOOLEAN :
          IF ~fetch_ok
          THEN Return(e, catastrophic_error(db, best_effort_ok), "catastrophic",
                      best_effort_ok, FALSE)
          ELSE IF db.llm_status = "processed"
          THEN Return(e, db, "skipped", FALSE, FALSE)
          ELSE /\ execs' = [execs EXCEPT ![e].pc = "llm", ![e].retry_count = db.retry_count]
               /\ UNCHANGED <<db, spawned, failed_attempts, failed_at, requeued_age,
                              sync_return, now, rankVars, wsVars>>

\* the update that marks the post processed, or its failure
MarkProcessed(e, row, status_update_ok, update_ok, best_effort_ok) ==
    IF status_update_ok
    THEN Return(e, [row EXCEPT !.llm_status = "processed"], "completed", FALSE, FALSE)
    ELSE LET f == analysis_failed(row, execs[e].retry_count, update_ok, best_effort_ok)
         IN  Return(e, f.row, "failed", f.wrote_failed, f.retry)

LlmOutcomes == {"llm_error", "insights_error", "audit_error", "ok"}

\* from the return of call_openrouter_chat to the first embedding call (or, for
\* a flagged post, to the end)
LlmReturns(e) ==
    /\ execs[e].pc = "llm"
    /\ \E outcome \in LlmOutcomes, flagged, status_update_ok, update_ok,
          best_effort_ok \in BOOLEAN :
          LET inserted ==
                  [db EXCEPT !.insights = IF outcome \in {"audit_error", "ok"}
                                          THEN @ + 1 ELSE @,
                             !.llm_audit_logs = IF outcome = "ok" THEN @ + 1 ELSE @]
          IN  IF outcome /= "ok"
              THEN LET f == analysis_failed(inserted, execs[e].retry_count, update_ok,
                                            best_effort_ok)
                   IN  Return(e, f.row, "failed", f.wrote_failed, f.retry)
              ELSE IF flagged
              THEN MarkProcessed(e, inserted, status_update_ok, update_ok, best_effort_ok)
              ELSE /\ db' = inserted
                   /\ execs' = [execs EXCEPT ![e].pc = "embed"]
                   /\ UNCHANGED <<spawned, failed_attempts, failed_at, requeued_age,
                                  sync_return, now, rankVars, wsVars>>

\* from the return of the embedding calls (their errors are logged) to the end
EmbeddingsReturn(e) ==
    /\ execs[e].pc = "embed"
    /\ \E status_update_ok, update_ok, best_effort_ok \in BOOLEAN :
          MarkProcessed(e, db, status_update_ok, update_ok, best_effort_ok)

\* asyncio.wait_for cancels the awaited process_post at its suspension point
Timeout(e) ==
    /\ execs[e].caller = "process_post_sync"
    /\ execs[e].pc \in {"llm", "embed"}
    /\ execs' = [execs EXCEPT ![e] = NoExecution]
    /\ sync_return' = [returned |-> TRUE, value |-> FALSE, llm_status |-> db.llm_status,
                       attempt |-> "timeout"]
    /\ UNCHANGED <<db, spawned, failed_attempts, failed_at, requeued_age, now,
                   rankVars, wsVars>>

ProcessPostSync ==
    /\ ~sync_return.returned
    /\ \A e \in Execs : execs[e].caller /= "process_post_sync"
    /\ CanSpawn
    /\ Spawn("process_post_sync")
    /\ UNCHANGED <<db, failed_attempts, failed_at, requeued_age, sync_return, now,
                   rankVars, wsVars>>

\* the cron job process_pending_posts finding the post
ProcessPendingPosts ==
    /\ db.llm_status = "pending"
    /\ CanSpawn
    /\ Spawn("process_pending_posts")
    /\ UNCHANGED <<db, failed_attempts, failed_at, requeued_age, sync_return, now,
                   rankVars, wsVars>>

\* the cron job retry_failed_posts finding the post
RetryFailedPosts ==
    /\ db.llm_status = "failed"
    /\ db.retry_count < MAX_RETRIES
    /\ CanSpawn
    /\ db' = [db EXCEPT !.llm_status = "pending"]
    /\ requeued_age' = now - failed_at
    /\ Spawn("retry_failed_posts")
    /\ UNCHANGED <<failed_attempts, failed_at, sync_return, now, rankVars, wsVars>>

\* twelve hours pass
HalfDayPasses ==
    /\ now < 12 * MaxHalfDays
    /\ now' = now + 12
    /\ UNCHANGED <<rankVars, schedVars, wsVars>>

NextSched ==
    \/ ProcessPostSync
    \/ ProcessPendingPosts
    \/ RetryFailedPosts
    \/ HalfDayPasses
    \/ \E e \in Execs : StartProcessPost(e)
    \/ \E e \in Execs : LlmReturns(e)
    \/ \E e \in Execs : EmbeddingsReturn(e)
    \/ \E e \in Execs : Timeout(e)

----------------------------------------------------------------------------
(* TickerConnectionManager, for one ticker *)

Sockets == 1..MaxSockets

NoEntry == [present |-> FALSE, conns |-> {}]
NoBroadcast ==
    [pc |-> "idle", used |-> 0, ahead |-> {}, orphaned |-> FALSE, connection |-> 0,
     disconnected |-> {}, attempted |-> {}, registered |-> {}, error |-> ""]

\* the set object the for loop iterates, seen from its iterator: its size now
\* (a set whose entry was deleted is empty and no longer the ticker's set)
IteratedSize(b, entry) == IF b.orphaned THEN 0 ELSE Cardinality(entry.conns)

\* broadcast_to_ticker from one suspension point to the next: the iterator's
\* next() (RuntimeError when the set's size differs from the size at the start
\* of the loop), then either the next send_json or, at the end of the loop,
\* self.ticker_connections[ticker] -= disconnected (KeyError without an entry)
Advance(b, entry, c) ==
    IF IteratedSize(b, entry) /= b.used
    THEN [broadcast |-> [b EXCEPT !.pc = "raised", !.error = "RuntimeError"],
          entry |-> entry]
    ELSE IF b.ahead = {}
    THEN IF ~entry.present
         THEN [broadcast |-> [b EXCEPT !.pc = "raised", !.error = "KeyError"],
               entry |-> entry]
         ELSE [broadcast |-> [b EXCEPT !.pc = "done"],
               entry |-> [entry EXCEPT !.conns = @ \ b.disconnected]]
    ELSE [broadcast |-> [b EXCEPT !.pc = "sending", !.connection = c,
                                  !.ahead = @ \ {c}, !.attempted = @ \cup {c}],
          entry |-> entry]

\* the elements the iterator may yield next (any order: a set is unordered)
NextOf(b) == IF b.ahead = {} THEN {0} ELSE b.ahead

BroadcastStart ==
    /\ broadcast.pc \in {"idle", "done", "raised"}
    /\ IF ~ticker_connections.present
       THEN /\ broadcast' = [NoBroadcast EXCEPT !.pc = "done"]
            /\ UNCHANGED ticker_connections
       ELSE LET b == [NoBroadcast EXCEPT !.used = Cardinality(ticker_connections.conns),
                                         !.ahead = ticker_connections.conns,
                                         !.registered = ticker_connections.conns]
            IN  \E c \in NextOf(b) :
                    /\ broadcast' = Advance(b, ticker_connections, c).broadcast
                    /\ ticker_connections' = Advance(b, ticker_connections, c).entry
    /\ UNCHANGED <<websockets, now, rankVars, schedVars>>

\* connection.send_json returns or raises, and the loop goes on
SendReturns ==
    /\ broadcast.pc = "sending"
    /\ \E send_ok \in BOOLEAN :
          LET b == IF send_ok THEN broadcast
                   ELSE [broadcast EXCEPT !.disconnected = @ \cup {broadcast.connection}]
          IN  \E c \in NextOf(b) :
                  /\ broadcast' = Advance(b, ticker_connections, c).broadcast
                  /\ ticker_connections' = Advance(b, ticker_connections, c).entry
    /\ UNCHANGED <<websockets, now, rankVars, schedVars>>

\* connect, after websocket.accept() returned.  Added to the set a suspended
\* broadcast iterates, the websocket lands ahead of the iterator or behind it.
Connect(w) ==
    /\ websockets[w] = "new"
    /\ broadcast.pc \in {"idle", "sending", "done", "raised"}
    /\ websockets' = [websockets EXCEPT ![w] = "open"]
    /\ ticker_connections' = [present |-> TRUE, conns |-> ticker_connections.conns \cup {w}]
    /\ IF broadcast.pc = "sending" /\ ~broadcast.orphaned /\ ticker_connections.present
       THEN \E lands_ahead \in BOOLEAN :
               broadcast' = [broadcast EXCEPT !.ahead = IF lands_ahead THEN @ \cup {w} ELSE @]
       ELSE UNCHANGED broadcast
    /\ UNCHANGED <<now, rankVars, schedVars>>

\* disconnect, called by the websocket's endpoint when its connection ends
Disconnect(w) ==
    /\ websockets[w] = "open"
    /\ websockets' = [websockets EXCEPT ![w] = "closed"]
    /\ LET rest == ticker_connections.conns \ {w}
           deleted == ticker_connections.present /\ rest = {}
       IN  /\ ticker_connections' =
                 IF ~ticker_connections.present THEN ticker_connections
                 ELSE IF rest = {} THEN NoEntry
                 ELSE [ticker_connections EXCEPT !.conns = rest]
           /\ broadcast' =
                 IF broadcast.pc = "sending" /\ ~broadcast.orphaned
                 THEN [broadcast EXCEPT !.ahead = @ \ {w}, !.orphaned = deleted]
                 ELSE broadcast
    /\ UNCHANGED <<now, rankVars, schedVars>>

NextWs ==
    \/ BroadcastStart
    \/ SendReturns
    \/ \E w \in Sockets : Connect(w)
    \/ \E w \in Sockets : Disconnect(w)

----------------------------------------------------------------------------
(* Inputs *)

StrategyInputs ==
    {"balanced", "quality_focused", "timely", "diverse", "personalized",
     "nonexistent", "Balanced"}

NoPreferences == [is_none |-> TRUE, favorite_tickers |-> <<>>]
Preferences(favorite_tickers) == [is_none |-> FALSE, favorite_tickers |-> favorite_tickers]
PreferenceInputs == {NoPreferences, Preferences(<<"NVDA">>)}

QualityParts ==
    { EmptyDict,
      Dict([quality_score |-> 500, confidence_level |-> 900, content |-> 500,
            key_points |-> <<"a">>, potential_catalysts |-> <<"b">>], {}),
      Dict([quality_score |-> 1000, confidence_level |-> 900, content |-> 500,
            key_points |-> <<"a">>, potential_catalysts |-> <<"b">>], {}),
      Dict(EmptyVal, {"quality_score", "confidence_level"}) }

CommunityParts ==
    { EmptyDict,
      Dict([like_count |-> 148, comment_count |-> 20, view_count |-> 22026], {}),
      Dict([like_count |-> 10, comment_count |-> 2, view_count |-> 100], {}),
      Dict([like_count |-> 1, comment_count |-> 0], {"view_count"}) }

AuthorParts ==
    { EmptyDict,
      Dict([author_reputation |-> 800, historical_accuracy |-> 600,
            sector_expertise_score |-> 750], {}),
      Dict([author_reputation |-> 1000, historical_accuracy |-> 1000,
            sector_expertise_score |-> 1000], {}) }

MarketParts ==
    { EmptyDict,
      Dict([market_alignment_score |-> 1000, relevance_score |-> 1000,
            is_trending_ticker |-> TRUE], {}),
      Dict(EmptyVal, {"market_alignment_score", "relevance_score"}) }

RecencyParts ==
    { EmptyDict,
      Dict([created_at |-> Timestamp(-24, "Z")], {}),
      Dict([created_at |-> Timestamp(24, "+00:00")], {}),
      Dict([created_at |-> MalformedString], {}),
      Dict([created_at |-> EmptyString], {}),
      Dict([created_at |-> NotAString], {}),
      Dict(EmptyVal, {"created_at"}) }

DiversityParts ==
    { EmptyDict,
      Dict([tickers |-> <<"NVDA">>, sector |-> "Technology"], {}),
      Dict([tickers |-> <<>>], {"sector"}),
      Dict([sector |-> "Technology"], {"tickers"}) }

\* posts ranked alone: every combination of the parts above
BroadPosts ==
    { Merge(Merge(Merge(Merge(Merge(q, c), a), m), r), d) :
        q \in QualityParts, c \in CommunityParts, a \in AuthorParts,
        m \in MarketParts, r \in RecencyParts, d \in DiversityParts }

\* posts ranked in batches
CorePosts ==
    { Dict([id |-> 1, tickers |-> <<"NVDA">>, sector |-> "Technology",
            quality_score |-> 900, created_at |-> Timestamp(-24, "Z")], {}),
      Dict([id |-> 2, tickers |-> <<"NVDA", "AMD">>, sector |-> "Technology"], {}),
      Dict([id |-> 3, tickers |-> <<"XOM">>, sector |-> "Energy",
            final_score |-> 99999,
            signals |-> [quality |-> 0, community |-> 0, author |-> 0,
                         market |-> 0, recency |-> 0, diversity |-> 0]], {}),
      Dict([id |-> 4], {}),
      Dict([id |-> 5, tickers |-> <<>>, sector |-> ""], {}) }

SeqsUpTo(S, n) == UNION {[1..k -> S] : k \in 0..n}

Batches == SeqsUpTo(CorePosts, MaxPosts) \cup {<<p>> : p \in BroadPosts}

ConcPosts == {p \in CorePosts : p.val["id"] \in {1, 3}}
ConcBatches == SeqsUpTo(ConcPosts, MaxConcPosts)
ConcStrategyInputs == {"diverse", "timely"}

\* posts for one extractor at a time, its fields taken through their cases
Optional(k, values) == {EmptyDict} \cup {Dict(k :> v, {}) : v \in values}
Lists(k) == {EmptyDict, Dict(k :> <<>>, {}), Dict(k :> <<"a">>, {}), Dict(EmptyVal, {k})}

QualityPosts ==
    { Merge(Merge(Merge(Merge(q, c), l), kp), pcs) :
        q \in Optional("quality_score", {0, 500, 900, 1000}),
        c \in Optional("confidence_level", {800, 900}),
        l \in Optional("content", {200, 201, 500, 1999, 2000}),
        kp \in Lists("key_points"),
        pcs \in Lists("potential_catalysts") }

AuthorPosts ==
    { Merge(Merge(r, h), e) :
        r \in Optional("author_reputation", {0, 800, 1000}),
        h \in Optional("historical_accuracy", {600, 1000}),
        e \in Optional("sector_expertise_score", {700, 750}) }

TimestampInputs ==
    {EmptyString, MalformedString, NotAString, DatetimeObject(-24)}
    \cup {Timestamp(wall, suffix) :
            wall \in {-72, -24, -12, 0, 24},
            suffix \in {"", "Z", "+00:00", "+05:00", "-05:00"}}

RecencyPosts == Optional("created_at", TimestampInputs) \cup {Dict(EmptyVal, {"created_at"})}

DiversityPosts ==
    { Dict([id |-> 1, tickers |-> <<"NVDA">>, sector |-> "Technology"], {}),
      Dict([id |-> 2, tickers |-> <<"NVDA", "AMD">>, sector |-> "Technology"], {}),
      Dict([id |-> 3, tickers |-> <<"NVDA", "AMD", "XOM">>, sector |-> "Energy"], {}),
      Dict([id |-> 4, tickers |-> <<"XOM">>, sector |-> ""], {}),
      Dict([id |-> 5, sector |-> "Technology"], {}) }

SignalBatches ==
    {<<p>> : p \in QualityPosts \cup AuthorPosts \cup RecencyPosts}
    \cup SeqsUpTo(DiversityPosts, MaxDivPosts)

----------------------------------------------------------------------------
(* Specifications *)

Init ==
    /\ strategy_name = ""
    /\ ranker = NoRanker
    /\ now = 0
    /\ pc = [c \in Calls |-> "idle"]
    /\ posts = [c \in Calls |-> <<>>]
    /\ user_preferences = [c \in Calls |-> NoPreferences]
    /\ idx = [c \in Calls |-> 0]
    /\ seen_tickers = [c \in Calls |-> {}]
    /\ seen_sectors = [c \in Calls |-> {}]
    /\ scored_posts = [c \in Calls |-> <<>>]
    /\ appended = [c \in Calls |-> <<>>]
    /\ reads = [c \in Calls |-> <<>>]
    /\ ret = [c \in Calls |-> <<>>]
    /\ explained = EmptyDict
    /\ explanation = <<>>
    /\ db = NewPost
    /\ execs = [e \in Execs |-> NoExecution]
    /\ spawned = 0
    /\ failed_attempts = 0
    /\ failed_at = 0
    /\ requeued_age = -1
    /\ sync_return = NotReturned
    /\ ticker_connections = NoEntry
    /\ websockets = [w \in Sockets |-> "new"]
    /\ broadcast = NoBroadcast

\* one request: get_ranker, then one rank_posts call
Next ==
    \/ \E name \in StrategyInputs : GetRanker(name)
    \/ RankStart("A", Batches, PreferenceInputs)
    \/ ScoreNext("A")
    \/ SortReturn("A")
    \/ Explain("A")

Spec == Init /\ [][Next]_vars

\* two rank_posts calls on one ranker, interleaved step by step, the clock running
NextConc ==
    \/ \E name \in ConcStrategyInputs : GetRanker(name)
    \/ \E c \in Calls : RankStart(c, ConcBatches, {NoPreferences})
    \/ \E c \in Calls : ScoreNext(c)
    \/ \E c \in Calls : SortReturn(c)
    \/ Tick

SpecConc == Init /\ [][NextConc]_vars

\* one rank_posts call on posts that take one extractor through its cases
NextSignals ==
    \/ \E name \in StrategyInputs : GetRanker(name)
    \/ RankStart("A", SignalBatches, {NoPreferences})
    \/ ScoreNext("A")
    \/ SortReturn("A")
    \/ Explain("A")

SpecSignals == Init /\ [][NextSignals]_vars

\* the processing of one post
SpecSched == Init /\ [][NextSched]_vars

\* one ticker of the websocket manager
SpecWs == Init /\ [][NextWs]_vars

----------------------------------------------------------------------------
(* Properties *)

\* the keys whose value the data model puts in [0,1]
UnitFields ==
    {"quality_score", "confidence_level", "relevance_score", "market_alignment_score",
     "author_reputation", "historical_accuracy", "sector_expertise_score"}
CountFields == {"like_count", "comment_count", "view_count"}

\* a creation timestamp that parses: an ISO string, with or without an offset
Parseable(ts) == ts.form = "iso" /\ ts.suffix \in {"", "Z"} \cup DOMAIN OffsetHours

\* each [0,1] field in [0,1] or absent, each count a non-negative integer or absent,
\* created_at a parseable timestamp
WellFormed(post) ==
    /\ \A k \in UnitFields :
          /\ ~IsNull(post, k)
          /\ k \in DOMAIN post.val => 0 <= post.val[k] /\ post.val[k] <= One
    /\ \A k \in CountFields :
          /\ ~IsNull(post, k)
          /\ k \in DOMAIN post.val => post.val[k] >= 0
    /\ "created_at" \in DOMAIN post.val
    /\ Parseable(post.val["created_at"])

\* final_score 1.0 in its fixed-point unit: One times the sum of a weight vector
ScoreOne == One * 100

\* C1: every post scored by rank_posts has final_score in [0,1], whenever its [0,1]
\* fields are in [0,1] or absent, its counts are non-negative and its creation
\* timestamp parses, be it earlier or later than the current time.
C1_FinalScoreInUnitInterval ==
    \A c \in Calls : \A k \in 1..Len(appended[c]) :
        WellFormed(posts[c][k]) =>
            /\ 0 <= appended[c][k].val["final_score"]
            /\ appended[c][k].val["final_score"] <= ScoreOne

\* out is a stable descending sort of inp: a rearrangement of inp along which
\* final_score never increases and equal scores keep their order of inp
IsStableDescendingSortOf(out, inp) ==
    /\ Len(out) = Len(inp)
    /\ \E pi \in [1..Len(inp) -> 1..Len(inp)] :
          /\ \A a, b \in 1..Len(inp) : a /= b => pi[a] /= pi[b]
          /\ \A a \in 1..Len(inp) : out[a] = inp[pi[a]]
          /\ \A a, b \in 1..Len(inp) :
                a < b =>
                    /\ out[a].val["final_score"] >= out[b].val["final_score"]
                    /\ out[a].val["final_score"] = out[b].val["final_score"]
                          => pi[a] < pi[b]

\* C2: the list rank_posts returns is the stable descending sort of the scored
\* input: final_score never increases along it, and posts with the same
\* final_score come in the order of the input.
C2_StableDescendingSort ==
    \A c \in Calls :
        pc[c] = "done" => IsStableDescendingSortOf(ret[c], appended[c])

\* a returned batch of three that the sort rearranged and that holds a tie
\* between two different posts
C2_Witness ==
    /\ pc["A"] = "done"
    /\ Len(ret["A"]) = 3
    /\ ret["A"] /= appended["A"]
    /\ \E a, b \in 1..3 :
          /\ a < b
          /\ ret["A"][a] /= ret["A"][b]
          /\ ret["A"][a].val["final_score"] = ret["A"][b].val["final_score"]

\* C3: rank_posts never raises for a post in which any of the optional fields is
\* missing, be the key absent or present with a null value.
C3_NeverRaises == \A c \in Calls : pc[c] /= "raised"

\* C5: the weight vector of every ranker has exactly the six signal names as
\* keys, no negative weight, and weights that sum to 1.00.
C5_WeightsNormalized ==
    ranker /= NoRanker =>
        /\ DOMAIN ranker.weights =
              {"quality", "community", "author", "market", "recency", "diversity"}
        /\ \A n \in DOMAIN ranker.weights : ranker.weights[n] >= 0
        /\ SumOver(DOMAIN ranker.weights, ranker.weights) = 100

\* a ranker of the strategy that has no row in STRATEGY_WEIGHTS
C5_Witness == ranker.strategy = "PERSONALIZED"

\* C9: each of the six signals of a scored post lies in [0,1], for a post as in C1.
C9_SignalsInUnitInterval ==
    \A c \in Calls : \A k \in 1..Len(appended[c]) :
        WellFormed(posts[c][k]) =>
            \A n \in SignalNames :
                /\ 0 <= appended[c][k].val["signals"][n]
                /\ appended[c][k].val["signals"][n] <= One

\* C4: a strategy name outside the five known ones yields a ranker with the weight
\* vector of get_ranker("balanced"), and rank_posts returns on every batch what
\* the balanced ranker returns.
C4_UnknownStrategyIsBalanced ==
    (/\ ranker /= NoRanker
     /\ strategy_name \notin {"balanced", "quality_focused", "timely", "diverse",
                              "personalized"})
    => /\ ranker.weights = get_ranker("balanced").weights
       /\ pc["A"] = "done" =>
             ret["A"] = rank_posts(get_ranker("balanced"), posts["A"],
                                   user_preferences["A"], reads["A"])

\* a batch of three ranked by the ranker of an unknown name, a post with a
\* creation timestamp among them
C4_Witness ==
    /\ strategy_name = "nonexistent"
    /\ pc["A"] = "done"
    /\ Len(ret["A"]) = 3
    /\ \E k \in 1..3 : "created_at" \in DOMAIN ret["A"][k].val

\* the tickers and the non-empty sectors of the first n posts of a batch
PrefixTickers(batch, n) ==
    UNION {Range(batch[i].val["tickers"]) : i \in {j \in 1..n : TruthyList(batch[j], "tickers")}}
PrefixSectors(batch, n) ==
    {batch[i].val["sector"] : i \in {j \in 1..n : TruthyStr(batch[j], "sector")}}

\* C6: no ranking state crosses calls.  Of two rank_posts calls on one ranker,
\* run one after the other or interleaved step by step, each returns what it
\* returns when run alone (on its posts, with its clock readings), and its
\* seen-sets hold tickers and sectors of its own posts only.
C6_CallsIndependent ==
    \A c \in Calls :
        /\ pc[c] = "done" =>
              ret[c] = rank_posts(ranker, posts[c], user_preferences[c], reads[c])
        /\ pc[c] /= "idle" =>
              /\ seen_tickers[c] \subseteq PrefixTickers(posts[c], Len(posts[c]))
              /\ seen_sectors[c] \subseteq PrefixSectors(posts[c], Len(posts[c]))

\* both calls in the middle of their loops, each about to score a post whose
\* ticker the other call has seen and it has not
C6_Witness ==
    /\ pc["A"] = "loop" /\ pc["B"] = "loop"
    /\ idx["A"] = 2 /\ idx["B"] = 2
    /\ Len(posts["A"]) = 2 /\ Len(posts["B"]) = 2
    /\ Range(posts["A"][2].val["tickers"]) \cap seen_tickers["B"] /= {}
    /\ Range(posts["A"][2].val["tickers"]) \cap seen_tickers["A"] = {}
    /\ Range(posts["B"][2].val["tickers"]) \cap seen_tickers["A"] /= {}
    /\ Range(posts["B"][2].val["tickers"]) \cap seen_tickers["B"] = {}

\* C7: when the k-th post of a batch is scored, seen_tickers is the union of the
\* tickers of posts 1..k-1 and seen_sectors the set of their non-empty sectors,
\* whatever those posts scored: the sets after n posts are those of posts 1..n
\* (so they only grow), and the diversity signal of the k-th entry is the one
\* computed against the sets of posts 1..k-1.
C7_SeenSetsFollowInputOrder ==
    \A c \in Calls :
        pc[c] /= "idle" /\ posts[c] /= <<>> =>
            LET n == Len(appended[c])
            IN  /\ pc[c] = "loop" => idx[c] = n + 1
                /\ seen_tickers[c] = PrefixTickers(posts[c], n)
                /\ seen_sectors[c] = PrefixSectors(posts[c], n)
                /\ \A k \in 1..n :
                      appended[c][k].val["signals"]["diversity"] =
                          compute_diversity_signal(posts[c][k],
                                                   PrefixTickers(posts[c], k - 1),
                                                   PrefixSectors(posts[c], k - 1))

\* a batch of three, reordered by the sort, whose third post was scored against
\* tickers of both earlier posts
C7_Witness ==
    /\ pc["A"] = "done"
    /\ Len(posts["A"]) = 3
    /\ ret["A"] /= appended["A"]
    /\ Cardinality(seen_tickers["A"]) >= 3
    /\ TruthyList(posts["A"][1], "tickers")
    /\ TruthyList(posts["A"][2], "tickers")
    /\ Range(posts["A"][1].val["tickers"]) /= Range(posts["A"][2].val["tickers"])
    /\ appended["A"][3].val["signals"]["diversity"] < One

\* C8: user_preferences is inert: whatever its value, rank_posts returns the
\* same signals, the same final_score for every post and the same order.
C8_PreferencesInert ==
    pc["A"] = "done" =>
        \A prefs \in PreferenceInputs \cup {Preferences(<<>>), Preferences(<<"XOM", "AMD">>)} :
            ret["A"] = rank_posts(ranker, posts["A"], prefs, reads["A"])

\* a returned batch ranked with a favorite ticker that one of its posts mentions
C8_Witness ==
    /\ pc["A"] = "done"
    /\ Len(ret["A"]) >= 2
    /\ ~user_preferences["A"].is_none
    /\ \E k \in 1..Len(posts["A"]) :
          /\ TruthyList(posts["A"][k], "tickers")
          /\ Range(posts["A"][k].val["tickers"])
                \cap Range(user_preferences["A"].favorite_tickers) /= {}

\* C10: rank_posts returns the full list: one entry for each input post, with the
\* post's own keys and values, and with the computed signals and final_score
\* attached in place of any the post carried; an empty batch returns an empty
\* list without error.
C10_FullListReturned ==
    \A c \in Calls :
        /\ pc[c] /= "idle" /\ posts[c] = <<>> => pc[c] = "done" /\ ret[c] = <<>>
        /\ pc[c] = "done" =>
              /\ Len(ret[c]) = Len(posts[c])
              /\ \E pi \in [1..Len(posts[c]) -> 1..Len(posts[c])] :
                    /\ \A a, b \in 1..Len(posts[c]) : a /= b => pi[a] /= pi[b]
                    /\ \A a \in 1..Len(posts[c]) :
                          LET entry == ret[c][a]
                              post == posts[c][pi[a]]
                              own == Keys(post) \ {"final_score", "signals"}
                              signals ==
                                  compute_signals(ranker, post,
                                                  PrefixTickers(posts[c], pi[a] - 1),
                                                  PrefixSectors(posts[c], pi[a] - 1),
                                                  user_preferences[c], reads[c][pi[a]])
                          IN  /\ Keys(entry) = own \cup {"final_score", "signals"}
                              /\ entry.nulls = post.nulls \cap own
                              /\ \A k \in own \ post.nulls : entry.val[k] = post.val[k]
                              /\ entry.val["signals"] = signals
                              /\ entry.val["final_score"] = aggregate_signals(ranker, signals)

\* a returned batch of three with a post that came with a final_score of its own
C10_Witness ==
    /\ pc["A"] = "done"
    /\ Len(ret["A"]) = 3
    /\ \E k \in 1..3 : "final_score" \in Keys(posts["A"][k])

\* the scored entries of the call: (post, entry, clock reading) by input position
Scored(c) == 1..Len(appended[c])

\* the UTC offset a timestamp is written with, in hours: Z and no offset are UTC
WrittenOffset(ts) ==
    IF ts.suffix = "+05:00" THEN 5 ELSE IF ts.suffix = "-05:00" THEN -5 ELSE 0

\* the hours elapsed at clock reading `clock` since the instant ts denotes
ElapsedHours(ts, clock) == clock - (ts.wall - WrittenOffset(ts))

HasTimestamp(post) == "created_at" \in DOMAIN post.val /\ Parseable(post.val["created_at"])

\* C13: the age the recency signal uses is the number of hours elapsed between
\* the post's creation instant and the current instant in UTC, whatever UTC
\* offset the timestamp is written with (Z, +00:00, +05:00, -05:00 or none).
C13_AgeIsElapsedUtcHours ==
    \A c \in Calls : \A k \in Scored(c) :
        HasTimestamp(posts[c][k]) =>
            LET ts == posts[c][k].val["created_at"]
            IN  AgeHours(FromIsoFormat(ReplaceZ(ts).s), reads[c][k])
                    = ElapsedHours(ts, reads[c][k])

\* C17: the quality signal is min(1.0, base + c + l + d): base the quality_score
\* (0.5 when absent), c = 0.1 iff confidence_level > 0.8, l = 0.05 iff
\* 200 < len(content) < 2000, d = 0.05 iff key_points and potential_catalysts
\* are both non-empty; 0.5, 0.9, 500 characters and both lists give 0.70.
C17_QualitySignal ==
    \A c \in Calls : \A k \in Scored(c) :
        LET post == posts[c][k]
            has(f) == f \in DOMAIN post.val
            base == IF has("quality_score") THEN post.val["quality_score"] ELSE 500
            conf == IF has("confidence_level") /\ post.val["confidence_level"] > 800
                  THEN 100 ELSE 0
            length == IF has("content") /\ post.val["content"] > 200 /\ post.val["content"] < 2000
                  THEN 50 ELSE 0
            detail == IF /\ has("key_points") /\ post.val["key_points"] /= <<>>
                     /\ has("potential_catalysts") /\ post.val["potential_catalysts"] /= <<>>
                  THEN 50 ELSE 0
            quality == appended[c][k].val["signals"]["quality"]
        IN  /\ quality = Min(1000, base + conf + length + detail)
            /\ (/\ has("quality_score") /\ post.val["quality_score"] = 500
                /\ has("confidence_level") /\ post.val["confidence_level"] = 900
                /\ has("content") /\ post.val["content"] = 500
                /\ detail = 50)
               => quality = 700

\* the scored post of the concrete case
C17_Witness ==
    /\ Len(appended["A"]) = 1
    /\ posts["A"][1].val =
          [quality_score |-> 500, confidence_level |-> 900, content |-> 500,
           key_points |-> <<"a">>, potential_catalysts |-> <<"a">>]
    /\ appended["A"][1].val["signals"]["quality"] = 700

\* C18: the author signal is min(1.0, 0.5 * reputation + 0.5 * historical_accuracy
\* + b), both defaulting to 0.5, b = 0.1 iff sector_expertise_score > 0.7;
\* 0.8, 0.6 and 0.75 give 0.80.
C18_AuthorSignal ==
    \A c \in Calls : \A k \in Scored(c) :
        LET post == posts[c][k]
            has(f) == f \in DOMAIN post.val
            rep == IF has("author_reputation") THEN post.val["author_reputation"] ELSE 500
            acc == IF has("historical_accuracy") THEN post.val["historical_accuracy"] ELSE 500
            b == IF has("sector_expertise_score") /\ post.val["sector_expertise_score"] > 700
                 THEN 100 ELSE 0
            author == appended[c][k].val["signals"]["author"]
        IN  /\ author = Min(1000, (rep + acc) \div 2 + b)
            /\ rep = 800 /\ acc = 600 /\ b = 100 => author = 800

\* the scored post of the concrete case
C18_Witness ==
    /\ Len(appended["A"]) = 1
    /\ posts["A"][1].val =
          [author_reputation |-> 800, historical_accuracy |-> 600,
           sector_expertise_score |-> 750]
    /\ appended["A"][1].val["signals"]["author"] = 800

\* the half-life the strategy name stands for
NamedHalfLife(name) ==
    IF name = "timely" THEN 12 ELSE IF name = "quality_focused" THEN 72 ELSE 24

\* C19: the recency signal is max(0.1, exp(-age_hours / half_life)), age_hours
\* being the age the extractor computed, with half_life 12 for timely, 72 for
\* quality_focused and 24 for every other name; a post created 24 hours ago
\* (UTC) gets exp(-1) = 0.368 under balanced.
C19_RecencyDecay ==
    \A c \in Calls : \A k \in Scored(c) :
        HasTimestamp(posts[c][k]) =>
            LET ts == posts[c][k].val["created_at"]
                age_hours == AgeHours(FromIsoFormat(ReplaceZ(ts).s), reads[c][k])
                recency == appended[c][k].val["signals"]["recency"]
            IN  /\ recency = Max(100, ExpNegMilli(age_hours, NamedHalfLife(strategy_name)))
                /\ (/\ strategy_name = "balanced"
                    /\ ts.suffix \in {"", "Z", "+00:00"}
                    /\ reads[c][k] - ts.wall = 24)
                   => recency = 368

\* the concrete case, scored
C19_Witness ==
    /\ strategy_name = "balanced"
    /\ Len(appended["A"]) = 1
    /\ "created_at" \in DOMAIN posts["A"][1].val
    /\ posts["A"][1].val["created_at"] = Timestamp(reads["A"][1] - 24, "Z")
    /\ appended["A"][1].val["signals"]["recency"] = 368

\* a creation timestamp that is missing or cannot be parsed: absent, null, the
\* empty string, a malformed string, or a value that is no string
Unparseable(post) ==
    \/ IsNull(post, "created_at")
    \/ "created_at" \notin DOMAIN post.val
    \/ post.val["created_at"].form \in {"empty", "malformed", "int", "datetime"}

\* C20: for a post whose creation timestamp is missing or cannot be parsed, the
\* recency signal is 0.5 under every strategy and no error is raised.
C20_UnparseableIsNeutral ==
    \A c \in Calls : \A k \in 1..Len(posts[c]) :
        (/\ Unparseable(posts[c][k])
         /\ ~compute_quality_raises(posts[c][k]) /\ ~compute_community_raises(posts[c][k])
         /\ ~compute_author_raises(posts[c][k]) /\ ~compute_market_raises(posts[c][k])
         /\ ~compute_diversity_raises(posts[c][k]))
        => /\ ~(pc[c] = "raised" /\ idx[c] = k)
           /\ k \in Scored(c) => appended[c][k].val["signals"]["recency"] = 500

\* the tickers a post mentions, as a set
TickersOf(post) ==
    IF "tickers" \in DOMAIN post.val THEN Range(post.val["tickers"]) ELSE {}

\* C15: the diversity signal of a post is max(0.3, t * s), with
\* t = 1 - 0.5 * |post_tickers \cap seen_tickers| / |post_tickers| when the post
\* has tickers (1 when it has none or none were seen) and s = 0.7 when the
\* post's sector is non-empty and in seen_sectors, else 1; the seen sets are
\* those of the posts before it in input order.
C15_DiversitySignal ==
    \A c \in Calls : \A k \in Scored(c) :
        LET post == posts[c][k]
            seenT == PrefixTickers(posts[c], k - 1)
            seenS == PrefixSectors(posts[c], k - 1)
            mine == TickersOf(post)
            t == IF mine = {} THEN 1000
                 ELSE 1000 - (500 * Cardinality(mine \cap seenT)) \div Cardinality(mine)
            s == IF /\ "sector" \in DOMAIN post.val
                    /\ post.val["sector"] /= ""
                    /\ post.val["sector"] \in seenS
                 THEN 700 ELSE 1000
        IN  appended[c][k].val["signals"]["diversity"] = Max(300, (t * s) \div 1000)

\* a post scored after one with part of its tickers and its sector
C15_Witness ==
    /\ Len(appended["A"]) = 2
    /\ TickersOf(posts["A"][1]) = {"NVDA"}
    /\ TickersOf(posts["A"][2]) = {"NVDA", "AMD"}
    /\ posts["A"][1].val["sector"] = posts["A"][2].val["sector"]
    /\ appended["A"][2].val["signals"]["diversity"] = 525

\* C16: the first post of any batch receives diversity signal 1.0, and in a
\* batch whose posts all mention one ticker every later post receives a
\* diversity signal no larger than the first post's.
C16_FirstPostMostDiverse ==
    \A c \in Calls :
        /\ Scored(c) /= {} => appended[c][1].val["signals"]["diversity"] = 1000
        /\ (\E ticker \in {"NVDA", "AMD", "XOM"} :
                \A k \in 1..Len(posts[c]) : ticker \in TickersOf(posts[c][k]))
           => \A k \in Scored(c) :
                  appended[c][k].val["signals"]["diversity"]
                      <= appended[c][1].val["signals"]["diversity"]

\* three posts that all mention NVDA, scored in input order
C16_Witness ==
    /\ Len(posts["A"]) = 3 /\ Len(appended["A"]) = 3
    /\ \A k \in 1..3 : "NVDA" \in TickersOf(posts["A"][k])
    /\ appended["A"][1].val["signals"]["diversity"] = 1000
    /\ appended["A"][2].val["signals"]["diversity"] < 1000
    /\ appended["A"][3].val["signals"]["diversity"] < 1000

\* C12: rank_posts treats its input as read-only: from the call on, the input
\* list keeps its order and every input post its keys and values (no signals
\* or final_score key is added); explain_ranking leaves the returned list, and
\* with it the scored post it is given, unchanged.
C12_InputReadOnly ==
    [][\A c \in Calls :
          /\ pc[c] /= "idle" => posts'[c] = posts[c]
          /\ pc[c] = "done" => ret'[c] = ret[c]]_vars

\* a batch of three returned in another order than given, one entry explained
C12_Witness ==
    /\ pc["A"] = "done"
    /\ Len(posts["A"]) = 3
    /\ ret["A"] /= appended["A"]
    /\ \A k \in 1..3 : {"signals", "final_score"} \cap DOMAIN posts["A"][k].val = {}
    /\ explanation /= <<>>
    /\ explained \in Range(ret["A"])

\* the signal a phrase of an explanation speaks of ("" for the generic phrase
\* and for the literals between phrases)
SignalOfPhrase(piece) ==
    IF piece.text = "high-quality analysis (score: {quality:.2f})" THEN "quality"
    ELSE IF piece.text = "experienced author (reputation: {rep:.2f}, accuracy: {acc:.2f})"
    THEN "author"
    ELSE IF piece.text = "strong market alignment and relevance" THEN "market"
    ELSE IF piece.text = "timely and recent insight" THEN "recency"
    ELSE IF piece.text = "high community engagement ({likes} likes)" THEN "community"
    ELSE ""

IsGeneric(piece) == piece.text = "balanced across multiple factors"

\* the rule of the claim on a weighted contribution (units of 1e-5)
PassesRule(name, contribution) ==
    \/ name \in {"quality", "author"} /\ contribution > 15000
    \/ name \in {"market", "recency", "community"} /\ contribution > 10000

\* C14: explain_ranking mentions exactly the signals that are among the three
\* highest weighted contributions and pass their rule (quality and author
\* above 0.15, market, recency and community above 0.10, diversity never), in
\* descending contribution order; the generic phrase is emitted iff no signal
\* qualifies, and every explanation has between 1 and 3 phrases.
C14_ExplanationMentionsTopThree ==
    explanation /= <<>> =>
        LET signals == explained.val["signals"]
            contribution == [n \in SignalNames |-> signals[n] * ranker.weights[n]]
            phrases == SelectSeq(explanation,
                                 LAMBDA piece : SignalOfPhrase(piece) /= "" \/ IsGeneric(piece))
            named == SelectSeq(explanation, LAMBDA piece : SignalOfPhrase(piece) /= "")
            mentioned == {SignalOfPhrase(named[i]) : i \in 1..Len(named)}
        IN  /\ \E top \in SUBSET SignalNames :
                /\ Cardinality(top) = 3
                /\ \A a \in top, b \in SignalNames \ top : contribution[a] >= contribution[b]
                /\ mentioned = {n \in top : PassesRule(n, contribution[n])}
            /\ Cardinality(mentioned) = Len(named)
            /\ \A i, j \in 1..Len(named) :
                  i < j => contribution[SignalOfPhrase(named[i])]
                               >= contribution[SignalOfPhrase(named[j])]
            /\ (\E i \in 1..Len(phrases) : IsGeneric(phrases[i])) <=> mentioned = {}
            /\ Len(phrases) \in 1..3

\* an explanation of three phrases for a post with a fourth signal that passes
\* its rule but is not among the three highest
C14_Witness ==
    /\ explanation /= <<>>
    /\ Len(SelectSeq(explanation, LAMBDA piece : SignalOfPhrase(piece) /= "")) = 3
    /\ Cardinality({n \in SignalNames :
          PassesRule(n, explained.val["signals"][n] * ranker.weights[n])}) >= 4

\* an explanation made of the generic phrase alone
C14_WitnessGeneric ==
    /\ explanation /= <<>>
    /\ \E i \in 1..Len(explanation) : IsGeneric(explanation[i])

\* C21: for every scored post, final_score is the sum over the six signal names
\* of signals[name] times weight[name], with the weights of the ranker that
\* scored it.
C21_FinalScoreIsWeightedSum ==
    \A c \in Calls : \A k \in Scored(c) :
        LET signals == appended[c][k].val["signals"]
            weight == ranker.weights
        IN  appended[c][k].val["final_score"] =
                signals["quality"] * weight["quality"]
                    + signals["community"] * weight["community"]
                    + signals["author"] * weight["author"]
                    + signals["market"] * weight["market"]
                    + signals["recency"] * weight["recency"]
                    + signals["diversity"] * weight["diversity"]

\* a post scored by a ranker whose weights are not the balanced ones, with
\* signals that tell the weight vectors apart
C21_Witness ==
    /\ strategy_name = "timely"
    /\ Len(appended["A"]) = 1
    /\ appended["A"][1].val["signals"]["quality"] = 1000
    /\ appended["A"][1].val["signals"]["market"] = 500
    /\ appended["A"][1].val["final_score"] > 0

\* the pieces of the last explanation that speak of the signal
PhrasesOf(name) == SelectSeq(explanation, LAMBDA piece : SignalOfPhrase(piece) = name)

\* C27: the values an explanation quotes are the values the ranking used: the
\* quality phrase quotes quality_score, or 0.5 when the field is absent; the
\* author phrase quotes author_reputation and historical_accuracy, each 0.5
\* when absent.
C27_QuotedValuesAreUsedValues ==
    explanation /= <<>> =>
        LET used(field) == IF field \in DOMAIN explained.val
                           THEN explained.val[field] ELSE 500
        IN  /\ \A i \in 1..Len(PhrasesOf("quality")) :
                  PhrasesOf("quality")[i].args = <<used("quality_score") \div 10>>
            /\ \A i \in 1..Len(PhrasesOf("author")) :
                  PhrasesOf("author")[i].args =
                      <<used("author_reputation") \div 10,
                        used("historical_accuracy") \div 10>>

\* C28: the 0.3 floor of the diversity signal is never binding: every diversity
\* signal lies in [0.35, 1.0], and a post scored again later in the batch, when
\* the seen-sets have grown, never gets a larger signal.
C28_DiversityFloorNotBinding ==
    \A c \in Calls : \A k \in Scored(c) :
        LET diversity(i) == appended[c][i].val["signals"]["diversity"]
        IN  /\ 350 <= diversity(k)
            /\ diversity(k) <= 1000
            /\ \A j \in Scored(c) :
                  (/\ j < k
                   /\ posts[c][j] = posts[c][k]
                   /\ PrefixTickers(posts[c], j - 1) \subseteq PrefixTickers(posts[c], k - 1)
                   /\ PrefixSectors(posts[c], j - 1) \subseteq PrefixSectors(posts[c], k - 1))
                  => diversity(k) <= diversity(j)

\* a post scored twice in one batch: first with nothing seen, then with all its
\* tickers and its sector seen, where it gets the least value 0.35
C28_Witness ==
    /\ Len(appended["A"]) >= 2
    /\ posts["A"][1] = posts["A"][2]
    /\ appended["A"][1].val["signals"]["diversity"] = 1000
    /\ appended["A"][2].val["signals"]["diversity"] = 350

\* the threshold of the rule of a signal, in hundredths (diversity has no rule)
RuleThreshold(name) ==
    IF name \in {"quality", "author"} THEN 15 ELSE 10

\* the signals the last explanation mentions
Mentioned ==
    {n \in SignalNames \ {"diversity"} : PhrasesOf(n) /= <<>>}

\* C29: for a scored post whose signals lie in [0,1], explain_ranking mentions a
\* signal only if the strategy's weight for it exceeds its threshold: under
\* timely no quality or author phrase, under quality_focused no market, recency
\* or community phrase, under diverse no author or market phrase.
C29_MentionNeedsWeightAboveThreshold ==
    (/\ explanation /= <<>>
     /\ \A n \in SignalNames :
           /\ 0 <= explained.val["signals"][n]
           /\ explained.val["signals"][n] <= 1000)
    => /\ \A n \in Mentioned : ranker.weights[n] > RuleThreshold(n)
       /\ PhrasesOf("diversity") = <<>>
       /\ strategy_name = "timely" => Mentioned \cap {"quality", "author"} = {}
       /\ strategy_name = "quality_focused"
             => Mentioned \cap {"market", "recency", "community"} = {}
       /\ strategy_name = "diverse" => Mentioned \cap {"author", "market"} = {}

\* under timely, a post with quality and author signals 1.0 explained without
\* either phrase
C29_Witness ==
    /\ strategy_name = "timely"
    /\ explanation /= <<>>
    /\ explained.val["signals"]["quality"] = 1000
    /\ explained.val["signals"]["author"] = 1000
    /\ \A n \in SignalNames : explained.val["signals"][n] <= 1000
    /\ Mentioned /= {}
    /\ Mentioned \cap {"quality", "author"} = {}

\* C22: the cron job retry_failed_posts retries only posts that failed less
\* than 24 hours ago: a post whose failure is 24 hours old or older is never
\* reset to pending or re-processed by it.
C22_RetriesOnlyRecentFailures == requeued_age < 24

\* C23: process_post_sync returns True only if the post's llm_status is
\* processed, and returns False whenever the analysis attempt failed (LLM or
\* database error) or timed out.
C23_SyncReturnsSuccess ==
    sync_return.returned =>
        /\ sync_return.value = TRUE => sync_return.llm_status = "processed"
        /\ sync_return.attempt \in {"failed", "catastrophic", "timeout"}
              => sync_return.value = FALSE

\* C24: processed is absorbing: once the post's llm_status is processed, no
\* step of a process_post execution, a delayed retry or a cron job changes it,
\* under every interleaving of executions for the post.
C24_ProcessedIsAbsorbing ==
    [][db.llm_status = "processed" => db'.llm_status = "processed"]_vars

\* C25: retries are bounded: the stored retry_count never exceeds MAX_RETRIES,
\* no more than 3 analysis attempts fail for the post, and a post marked failed
\* with retry_count 3 is never attempted again (no execution is in its analysis
\* having read a retry_count of 3 or more; a row with retry_count 3 is failed
\* or processed, and a processed post is skipped).
C25_RetriesBounded ==
    /\ db.retry_count <= 3
    /\ failed_attempts <= 3
    /\ \A e \in Execs : execs[e].pc \in {"llm", "embed"} => execs[e].retry_count < 3

\* C26: the post gets at most one insights row and at most one llm_audit_logs
\* row from process_post, over all attempts and executions.
C26_SingleInsightsRow ==
    /\ db.insights <= 1
    /\ db.llm_audit_logs <= 1

\* C30: broadcast_to_ticker never raises, and a broadcast that ends has tried
\* to send to every connection registered from its start to its end, under
\* every interleaving of connect and disconnect calls that run while the
\* broadcast is suspended in a send.
C30_BroadcastNeverFails ==
    /\ broadcast.pc /= "raised"
    /\ broadcast.pc = "done" =>
          (broadcast.registered \cap ticker_connections.conns) \subseteq broadcast.attempted

====
